---- MODULE Spec2Model ----
(***************************************************************************)
(* The two export scripts of the repository as one state machine:          *)
(*   variant "cbf"    : src/cbf-script.py  (CBFDataExporter + main)        *)
(*   variant "script" : src/script.py      (obter_jogos_brasileirao)       *)
(* The HTTP server is the environment: every GET draws its response from   *)
(* a bounded set.  Python values that may be unbound are kept as sequences *)
(* of length at most one (Unbound, Bind(x)).  Text that the code slices,   *)
(* lower-cases, searches or compares is a sequence of characters.          *)
(***************************************************************************)
EXTENDS Integers, Sequences, FiniteSets, TLC

\* ------------------------------------------------------------------ bounds
MaxComps == 2
MaxMatches == 2

\* ------------------------------------------------------------ Python values
Unbound == <<>>
Bind(x) == <<x>>
Val(o) == o[1]

SetMin(S) == CHOOSE x \in S : \A y \in S : x <= y

SeqsUpTo(S, n) == UNION {[1..k -> S] : k \in 0..n}

\* str(year) for a non-negative int: its decimal digits
Digits == <<"0", "1", "2", "3", "4", "5", "6", "7", "8", "9">>

RECURSIVE Str(_)
Str(n) == IF n < 10 THEN <<Digits[n + 1]>> ELSE Str(n \div 10) \o <<Digits[(n % 10) + 1]>>

\* str.lower()
UpperCase == <<"A", "B", "C", "D", "E", "F", "G", "H", "I", "J", "K", "L", "M",
               "N", "O", "P", "Q", "R", "S", "T", "U", "V", "W", "X", "Y", "Z">>
LowerCase == <<"a", "b", "c", "d", "e", "f", "g", "h", "i", "j", "k", "l", "m",
               "n", "o", "p", "q", "r", "s", "t", "u", "v", "w", "x", "y", "z">>

LowerChar(c) ==
  IF \E i \in 1..26 : UpperCase[i] = c
  THEN LowerCase[CHOOSE i \in 1..26 : UpperCase[i] = c]
  ELSE c

Lower(s) == [i \in 1..Len(s) |-> LowerChar(s[i])]

\* str.find(sub): the lowest 0-based index where sub occurs, -1 when it does not
Find(s, sub) ==
  LET at == {i \in 0..(Len(s) - Len(sub)) : SubSeq(s, i + 1, i + Len(sub)) = sub}
  IN IF at = {} THEN -1 ELSE SetMin(at)

\* s[:n]
SliceTo(s, n) == SubSeq(s, 1, IF Len(s) < n THEN Len(s) ELSE n)

\* comparison of str values (by code point, then by length)
CodeChars == <<"+", "-", "0", "1", "2", "3", "4", "5", "6", "7", "8", "9", ":", "T">>
Code(c) == CHOOSE i \in 1..Len(CodeChars) : CodeChars[i] = c

StrLess(a, b) ==
  \E k \in 0..Len(a) :
    /\ k <= Len(b)
    /\ \A j \in 1..k : a[j] = b[j]
    /\ \/ k = Len(a) /\ k < Len(b)
       \/ k < Len(a) /\ k < Len(b) /\ Code(a[k + 1]) < Code(b[k + 1])

StrMin(S) == CHOOSE x \in S : \A y \in S : x = y \/ StrLess(x, y)
StrMax(S) == CHOOSE x \in S : \A y \in S : x = y \/ StrLess(y, x)

\* an exception object
Exc(type, arg) == [type |-> type, arg |-> arg]
Returned(v) == [raised |-> FALSE, value |-> Bind(v), exc |-> Unbound]
Raised(type, arg) == [raised |-> TRUE, value |-> Unbound, exc |-> Bind(Exc(type, arg))]

\* ------------------------------------------------------------ HTTP responses
Statuses == {200, 300, 404, 500}

\* Response.raise_for_status(): HTTPError for 4xx and 5xx only
RaisesForStatus(status) == 400 <= status /\ status < 600

Years == {2022, 2023}

\* ------------------------------------------------------------- dict lookups
HasKey(d, k) == k \in DOMAIN d
Without(d, k) == [x \in (DOMAIN d) \ {k} |-> d[x]]

\* d[p1][p2]...[pn]; every inner value is a dict
RECURSIVE GetPath(_, _)
GetPath(d, path) ==
  IF Len(path) = 1 THEN d[path[1]] ELSE GetPath(d[path[1]], Tail(path))

\* the key whose lookup raises KeyError along d[p1]...[pn], if any
RECURSIVE MissingOn(_, _)
MissingOn(d, path) ==
  IF path = <<>> THEN Unbound
  ELSE IF ~HasKey(d, path[1]) THEN Bind(path[1])
  ELSE MissingOn(d[path[1]], Tail(path))

\* ------------------------------------------- competitions listing (the API)
NameSerieA == <<"C", "a", "m", "p", "e", "o", "n", "a", "t", "o", " ", "B", "r", "a", "s", "i", "l", "e", "i", "r", "o">>
NameCopa == <<"C", "o", "p", "a", " ", "d", "o", " ", "B", "r", "a", "s", "i", "l">>
Keyword == <<"b", "r", "a", "s", "i", "l", "e", "i", "r", "o">>
Season2022 == <<"2", "0", "2", "2">>
Season2023 == <<"2", "0", "2", "3">>

CompNames == {NameSerieA, NameCopa}
CompSeries == {"A", "B"}
CompSeasons == {Season2022, Season2023}
CompIds == {"c1", "c2"}

WellFormedComps ==
  {[name |-> n, series |-> sr, season |-> ss, id |-> i] :
     n \in CompNames, sr \in CompSeries, ss \in CompSeasons, i \in CompIds}

\* a competition object without its 'series' key
MalformedComps ==
  {Without([name |-> NameSerieA, series |-> "A", season |-> Season2023, id |-> "c1"], "series")}

Comps == WellFormedComps \cup MalformedComps
Listings == SeqsUpTo(Comps, MaxComps)

\* ------------------------------------------------ match objects (CBF API)
Date0415 == <<"2", "0", "2", "3", "-", "0", "4", "-", "1", "5">>
Date1105 == <<"2", "0", "2", "3", "-", "1", "1", "-", "0", "5">>

CbfMatch(date, round, home, away, hs, as, att) ==
  [date |-> date, round |-> round,
   home_team |-> [name |-> home], away_team |-> [name |-> away],
   home_score |-> hs, away_score |-> as,
   stadium |-> [name |-> "Maracana", city |-> "Rio de Janeiro", state |-> "RJ"],
   referee |-> [name |-> "Daronco"],
   attendance |-> att, revenue |-> 100]

CbfM1 == CbfMatch(Date0415, 1, "Flamengo", "Palmeiras", 2, 1, 3)
CbfM2 == CbfMatch(Date1105, 2, "Palmeiras", "Santos", 0, 0, 4)
CbfM3 == CbfMatch(Date0415, 1, "Santos", "Gremio", 1, 3, 2)

WellFormedCbfMatches == {CbfM1, CbfM2, CbfM3}

MalformedCbfMatches ==
  {Without(CbfM1, "referee"),
   [CbfM2 EXCEPT !.stadium = Without(CbfM2.stadium, "city")]}

CbfMatches == WellFormedCbfMatches \cup MalformedCbfMatches
CbfMatchLists == SeqsUpTo(CbfMatches, MaxMatches)

\* ------------------------------------------ fixture objects (API-Football)
IsoDate0415 == <<"2", "0", "2", "3", "-", "0", "4", "-", "1", "5", "T", "1", "6", ":", "0", "0", ":", "0", "0", "+", "0", "0", ":", "0", "0">>
IsoDate1105 == <<"2", "0", "2", "3", "-", "1", "1", "-", "0", "5", "T", "1", "9", ":", "3", "0", ":", "0", "0", "+", "0", "0", ":", "0", "0">>
ShortDate == <<"2", "0", "2", "3", "-", "0", "5">>

Fixture(date, home, away, gh, ga) ==
  [fixture |-> [date |-> date, venue |-> [name |-> "Maracana"]],
   teams |-> [home |-> [name |-> home], away |-> [name |-> away]],
   goals |-> [home |-> gh, away |-> ga]]

Fx1 == Fixture(IsoDate0415, "Flamengo", "Palmeiras", 2, 1)
Fx2 == Fixture(IsoDate1105, "Palmeiras", "Santos", 0, 0)
Fx3 == Fixture(ShortDate, "Santos", "Gremio", 1, 3)

WellFormedFixtures == {Fx1, Fx2, Fx3}

MalformedFixtures ==
  {Without(Fx1, "goals"),
   [Fx2 EXCEPT !.fixture = Without(Fx2.fixture, "venue")]}

Fixtures == WellFormedFixtures \cup MalformedFixtures
FixtureLists == SeqsUpTo(Fixtures, MaxMatches)

\* ------------------------------------------------------------ 4.1 Resolver
\* CompMatches with the season comparison left out
CompMatchesAnySeason(comp, yr) ==
  IF ~HasKey(comp, "name") THEN Raised("KeyError", "name")
  ELSE IF ~(Find(Lower(comp.name), Keyword) # -1) THEN Returned(FALSE)
  ELSE IF ~HasKey(comp, "series") THEN Raised("KeyError", "series")
  ELSE Returned(comp.series = "A")

\* the condition of the scan loop on one competition object; 'and' evaluates
\* left to right and stops at the first false operand, so a key is looked up
\* only when the operands before it are true
CompMatches(comp, yr) ==
  IF ~HasKey(comp, "name") THEN Raised("KeyError", "name")
  ELSE IF ~(Find(Lower(comp.name), Keyword) # -1) THEN Returned(FALSE)
  ELSE IF ~HasKey(comp, "series") THEN Raised("KeyError", "series")
  ELSE IF ~(comp.series = "A") THEN Returned(FALSE)
  ELSE IF ~HasKey(comp, "season") THEN Raised("KeyError", "season")
  ELSE Returned(comp.season = Str(yr))

\* NotFound falling off the end of the function: None is returned
NotFoundReturnsNone(yr) == [raised |-> FALSE, value |-> Unbound, exc |-> Unbound]

\* what the scan does once every competition has been passed over
NotFound(yr) == Raised("ValueError", "Competition not found")

\* the for loop of get_competition_id from position i on
RECURSIVE ScanFrom(_, _, _)
ScanFrom(comps, i, yr) ==
  IF i > Len(comps) THEN NotFound(yr)
  ELSE LET c == CompMatches(comps[i], yr)
       IN IF c.raised THEN c
          ELSE IF Val(c.value)
               THEN IF HasKey(comps[i], "id")
                    THEN Returned(comps[i].id)
                    ELSE Raised("KeyError", "id")
               ELSE ScanFrom(comps, i + 1, yr)

\* -------------------------------------------------------------- 4.3 Mapper
\* the flat record's fields, in the order of the dict display, with the
\* lookups each one reads
CbfColumns == <<"data", "rodada", "time_casa", "time_visitante", "gols_casa",
                "gols_visitante", "estadio", "cidade", "estado", "arbitro",
                "publico", "renda">>

CbfPaths == <<<<"date">>, <<"round">>, <<"home_team", "name">>, <<"away_team", "name">>,
              <<"home_score">>, <<"away_score">>, <<"stadium", "name">>,
              <<"stadium", "city">>, <<"stadium", "state">>, <<"referee", "name">>,
              <<"attendance">>, <<"revenue">>>>

\* ("Estadio" stands for the column the source spells with an accented a)
ScriptColumns == <<"Data", "Time Casa", "Time Visitante", "Placar Casa",
                   "Placar Visitante", "Estadio">>

ScriptPaths == <<<<"fixture", "date">>, <<"teams", "home", "name">>,
                 <<"teams", "away", "name">>, <<"goals", "home">>, <<"goals", "away">>,
                 <<"fixture", "venue", "name">>>>

ColumnIndex(columns, col) == CHOOSE i \in 1..Len(columns) : columns[i] = col

\* the body of one loop iteration: the lookups run in order, the first missing
\* key raises KeyError, otherwise the flat record is built
MapRecord(obj, columns, paths) ==
  LET missing == {i \in 1..Len(paths) : MissingOn(obj, paths[i]) # Unbound}
  IN IF missing # {}
     THEN Raised("KeyError", Val(MissingOn(obj, paths[SetMin(missing)])))
     ELSE Returned([col \in {columns[i] : i \in 1..Len(columns)} |->
                      GetPath(obj, paths[ColumnIndex(columns, col)])])

\* ProcessMatch with dict.get(key, "None") in place of the subscripts
ProcessMatchDefaulting(match) ==
  Returned([col \in {CbfColumns[i] : i \in 1..Len(CbfColumns)} |->
              LET path == CbfPaths[ColumnIndex(CbfColumns, col)]
              IN IF MissingOn(match, path) = Unbound THEN GetPath(match, path) ELSE "None"])

\* cbf-script.py: the dict display of process_matches
ProcessMatch(match) == MapRecord(match, CbfColumns, CbfPaths)

\* ProcessJogo without the [:10] slice
ProcessJogoUnsliced(jogo) == MapRecord(jogo, ScriptColumns, ScriptPaths)

\* script.py: the loop body; Data is the first 10 characters of fixture.date
ProcessJogo(jogo) ==
  LET r == MapRecord(jogo, ScriptColumns, ScriptPaths)
  IN IF r.raised THEN r
     ELSE Returned([Val(r.value) EXCEPT !["Data"] = SliceTo(@, 10)])

\* pd.DataFrame(list of dicts): the columns are the keys of the dicts, in
\* order; an empty list gives a frame with no columns at all
DataFrame(records, columns) ==
  [columns |-> IF records = <<>> THEN <<>> ELSE columns, rows |-> records]

\* -------------------------------------------------------------- 4.4 Writer
\* DataFrame.to_csv(path, index=False): one header line naming the frame's
\* columns, then one line per row holding that row's cells in column order
CsvFile(path, df, encoding) ==
  [path |-> path, encoding |-> encoding, header |-> df.columns,
   rows |-> [i \in 1..Len(df.rows) |->
               [c \in 1..Len(df.columns) |-> df.rows[i][df.columns[c]]]]]

CbfPath(yr) == [dir |-> "exports", prefix |-> "brasileirao", year |-> Str(yr), stamped |-> TRUE]
ScriptPath(yr) == [dir |-> ".", prefix |-> "jogos_brasileirao", year |-> Str(yr), stamped |-> FALSE]

\* ---------------------------------------------------- 4.5 Summary Reporter
RECURSIVE SumColumn(_, _)
SumColumn(rows, col) ==
  IF rows = <<>> THEN 0 ELSE rows[1][col] + SumColumn(Tail(rows), col)

ColumnSet(rows, col) == {rows[i][col] : i \in 1..Len(rows)}

\* format(total / n, ".0f"): the mean rounded to an integer, ties to even
MeanRounded(total, n) ==
  LET q == total \div n
      r == total % n
  IN IF 2 * r < n THEN q
     ELSE IF 2 * r > n THEN q + 1
     ELSE IF q % 2 = 0 THEN q ELSE q + 1

\* df[col]: KeyError when the frame has no such column
HasColumn(df, col) == \E i \in 1..Len(df.columns) : df.columns[i] = col

LogLine(level, msg, args) == [level |-> level, msg |-> msg, args |-> args]

\* the lines _log_export_summary logs before it returns or raises
SummaryLines(df) ==
  <<LogLine("INFO", "Export Summary:", <<>>),
    LogLine("INFO", "Total matches", <<Len(df.rows)>>)>>
  \o (IF HasColumn(df, "data")
      THEN <<LogLine("INFO", "Date range",
                     <<StrMin(ColumnSet(df.rows, "data")), StrMax(ColumnSet(df.rows, "data"))>>),
             LogLine("INFO", "Total teams",
                     <<Cardinality(ColumnSet(df.rows, "time_casa")
                                   \cup ColumnSet(df.rows, "time_visitante"))>>),
             LogLine("INFO", "Total goals",
                     <<SumColumn(df.rows, "gols_casa") + SumColumn(df.rows, "gols_visitante")>>),
             LogLine("INFO", "Average attendance",
                     <<MeanRounded(SumColumn(df.rows, "publico"), Len(df.rows))>>)>>
      ELSE <<>>)

\* the first column lookup of the summary raises on a frame without columns
SummaryResult(df) ==
  IF HasColumn(df, "data") THEN Returned(TRUE) ELSE Raised("KeyError", "data")

\* ------------------------------------------------------------ the HTTP API
LeagueId == 71

JsonBodies(values) == {Unbound} \cup {Bind(v) : v \in values}
Responses(values) == [status : Statuses, body : JsonBodies(values)]

\* GET {base_url}/competitions
CompetitionsResponses == Responses(Listings)
\* GET {base_url}/competitions/{id}/matches
MatchesResponses == Responses(CbfMatchLists)
\* GET fixtures?league=71&season={ano}: a JSON object, with or without "response"
FixturesResponses ==
  Responses({[response |-> l] : l \in FixtureLists} \cup {[errors |-> "token"]})

CompetitionsUrl == [endpoint |-> "competitions", id |-> Unbound, season |-> Unbound]
MatchesUrl(id) == [endpoint |-> "matches", id |-> id, season |-> Unbound]
FixturesUrl(yr) == [endpoint |-> "fixtures", id |-> Bind(LeagueId), season |-> Bind(Str(yr))]

\* ---------------------------------------------------------------- the state
VARIABLES
  variant,          \* which script runs: "cbf" or "script"
  year,             \* the season asked for
  pc,               \* the statement the run is at
  gets,             \* the GET requests issued so far, in order
  status,           \* status code of the latest response, once one arrived
  competitions,     \* get_competition_id's local: the decoded listing (the
                    \* model holds it until the next request is issued)
  competition_id,   \* export_season's local
  matches,          \* export_season's matches / script.py's jogos
  processed,        \* processed_matches / lista_jogos
  df,               \* the DataFrame, once built
  file,             \* the CSV file this run wrote, once written
  log,              \* what self.logger received
  out,              \* what was printed (stdout, and the traceback on stderr)
  exc,              \* the exception that ended the run, if any
  failed,           \* export_season raised / obter_jogos_brasileirao gave up
  result,           \* export_season's return value
  exit_code         \* the process's exit status, once it ended

vars == <<variant, year, pc, gets, status, competitions, competition_id, matches,
          processed, df, file, log, out, exc, failed, result, exit_code>>

Init ==
  /\ variant \in {"cbf", "script"}
  /\ year \in Years
  /\ pc = IF variant = "cbf" THEN "export_season" ELSE "obter_jogos_brasileirao"
  /\ gets = <<>>
  /\ status = Unbound
  /\ competitions = Unbound
  /\ competition_id = Unbound
  /\ matches = Unbound
  /\ processed = <<>>
  /\ df = Unbound
  /\ file = Unbound
  /\ log = <<>>
  /\ out = <<>>
  /\ exc = Unbound
  /\ failed = FALSE
  /\ result = Unbound
  /\ exit_code = Unbound

\* an exception raised inside export_season's try block
Raise(e) ==
  /\ exc' = e
  /\ pc' = "except"

\* ------------------------------------------------------- src/cbf-script.py
\* main() up to the first request: exporter built, export_season(2023) entered,
\* output directory made, first line logged
ExportSeasonEnter ==
  /\ pc = "export_season"
  /\ log' = Append(log, LogLine("INFO", "Fetching competition ID", <<Str(year)>>))
  /\ pc' = "get_competition_id"
  /\ UNCHANGED <<variant, year, gets, status, competitions, competition_id, matches,
                 processed, df, file, out, exc, failed, result, exit_code>>

\* get_competition_id: the GET, raise_for_status and response.json()
CompetitionsRequest ==
  /\ pc = "get_competition_id"
  /\ \E resp \in CompetitionsResponses :
       /\ gets' = Append(gets, CompetitionsUrl)
       /\ status' = Bind(resp.status)
       /\ IF RaisesForStatus(resp.status)
          THEN Raise(Bind(Exc("HTTPError", "status"))) /\ UNCHANGED competitions
          ELSE IF resp.body = Unbound
          THEN Raise(Bind(Exc("JSONDecodeError", "body"))) /\ UNCHANGED competitions
          ELSE competitions' = resp.body /\ pc' = "scan" /\ UNCHANGED exc
  /\ UNCHANGED <<variant, year, competition_id, matches, processed, df, file, log,
                 out, failed, result, exit_code>>

\* get_competition_id: the scan loop, its return or its ValueError; on return
\* export_season binds competition_id and logs the next step
ScanCompetitions ==
  /\ pc = "scan"
  /\ LET r == ScanFrom(Val(competitions), 1, year)
     IN IF r.raised
        THEN Raise(r.exc) /\ UNCHANGED <<competition_id, log>>
        ELSE /\ competition_id' = r.value
             /\ log' = Append(log, LogLine("INFO", "Fetching matches data", <<>>))
             /\ pc' = "get_matches"
             /\ UNCHANGED exc
  /\ UNCHANGED <<variant, year, gets, status, competitions, matches, processed, df,
                 file, out, failed, result, exit_code>>

\* GetMatches repeating the request once after an HTTP error
GetMatchesRetrying ==
  /\ pc = "get_matches"
  /\ \E resp \in MatchesResponses :
       /\ gets' = Append(gets, MatchesUrl(competition_id))
       /\ status' = Bind(resp.status)
       /\ IF RaisesForStatus(resp.status)
          THEN IF Len(gets) < 2
               THEN UNCHANGED <<pc, exc, matches, log>>
               ELSE Raise(Bind(Exc("HTTPError", "status"))) /\ UNCHANGED <<matches, log>>
          ELSE IF resp.body = Unbound
          THEN Raise(Bind(Exc("JSONDecodeError", "body"))) /\ UNCHANGED <<matches, log>>
          ELSE /\ matches' = resp.body
               /\ log' = log \o <<LogLine("INFO", "Retrieved matches", <<Len(Val(resp.body))>>),
                                  LogLine("INFO", "Processing matches data", <<>>)>>
               /\ pc' = "process_matches"
               /\ UNCHANGED exc
  /\ competitions' = Unbound
  /\ UNCHANGED <<variant, year, competition_id, processed, df, file, out, failed,
                 result, exit_code>>

\* get_matches: the GET, raise_for_status, response.json(), the count logged;
\* on return export_season binds matches and logs the next step.  The listing
\* of the previous call is no longer reachable from here on.
GetMatches ==
  /\ pc = "get_matches"
  /\ \E resp \in MatchesResponses :
       /\ gets' = Append(gets, MatchesUrl(competition_id))
       /\ status' = Bind(resp.status)
       /\ IF RaisesForStatus(resp.status)
          THEN Raise(Bind(Exc("HTTPError", "status"))) /\ UNCHANGED <<matches, log>>
          ELSE IF resp.body = Unbound
          THEN Raise(Bind(Exc("JSONDecodeError", "body"))) /\ UNCHANGED <<matches, log>>
          ELSE /\ matches' = resp.body
               /\ log' = log \o <<LogLine("INFO", "Retrieved matches", <<Len(Val(resp.body))>>),
                                  LogLine("INFO", "Processing matches data", <<>>)>>
               /\ pc' = "process_matches"
               /\ UNCHANGED exc
  /\ competitions' = Unbound
  /\ UNCHANGED <<variant, year, competition_id, processed, df, file, out, failed,
                 result, exit_code>>

\* process_matches: one iteration of the for loop
ProcessMatchesStep ==
  /\ pc = "process_matches"
  /\ Len(processed) < Len(Val(matches))
  /\ LET r == ProcessMatch(Val(matches)[Len(processed) + 1])
     IN IF r.raised
        THEN Raise(r.exc) /\ UNCHANGED processed
        ELSE processed' = Append(processed, Val(r.value)) /\ UNCHANGED <<pc, exc>>
  /\ UNCHANGED <<variant, year, gets, status, competitions, competition_id, matches,
                 df, file, log, out, failed, result, exit_code>>

\* process_matches: the loop is over, the DataFrame is returned
ProcessMatchesReturn ==
  /\ pc = "process_matches"
  /\ Len(processed) = Len(Val(matches))
  /\ df' = Bind(DataFrame(processed, CbfColumns))
  /\ pc' = "to_csv"
  /\ UNCHANGED <<variant, year, gets, status, competitions, competition_id, matches,
                 processed, file, log, out, exc, failed, result, exit_code>>

\* export_season: file name, df.to_csv, the success line
ToCsv ==
  /\ pc = "to_csv"
  /\ file' = Bind(CsvFile(CbfPath(year), Val(df), "utf-8"))
  /\ log' = Append(log, LogLine("INFO", "Successfully exported matches", <<>>))
  /\ pc' = "_log_export_summary"
  /\ UNCHANGED <<variant, year, gets, status, competitions, competition_id, matches,
                 processed, df, out, exc, failed, result, exit_code>>

\* _log_export_summary, then export_season's return
LogExportSummary ==
  /\ pc = "_log_export_summary"
  /\ log' = log \o SummaryLines(Val(df))
  /\ LET r == SummaryResult(Val(df))
     IN IF r.raised
        THEN Raise(r.exc) /\ UNCHANGED result
        ELSE /\ result' = Bind(Val(file).path)
             /\ pc' = "returned"
             /\ UNCHANGED exc
  /\ UNCHANGED <<variant, year, gets, status, competitions, competition_id, matches,
                 processed, df, file, out, failed, exit_code>>

\* which except clause of export_season catches the exception: HTTPError is a
\* RequestException; the decoding error of response.json() is one or is a plain
\* ValueError, depending on the installed requests
ErrorLines(e) ==
  IF e.type = "HTTPError" THEN {"API request failed"}
  ELSE IF e.type = "JSONDecodeError" THEN {"API request failed", "Export failed"}
  ELSE {"Export failed"}

\* export_season's except clauses: log the error, raise it again
ExportSeasonExcept ==
  /\ pc = "except"
  /\ \E msg \in ErrorLines(Val(exc)) :
       log' = Append(log, LogLine("ERROR", msg, <<Val(exc).type>>))
  /\ failed' = TRUE
  /\ pc' = "main_except"
  /\ UNCHANGED <<variant, year, gets, status, competitions, competition_id, matches,
                 processed, df, file, out, exc, result, exit_code>>

\* main(): export_season returned, the path is printed, the process ends
MainSuccess ==
  /\ pc = "returned"
  /\ out' = out \o <<"Export completed successfully!", "File saved to">>
  /\ exit_code' = Bind(0)
  /\ pc' = "exit"
  /\ UNCHANGED <<variant, year, gets, status, competitions, competition_id, matches,
                 processed, df, file, log, exc, failed, result>>

\* main(): except Exception prints the error; main returns normally
MainExcept ==
  /\ pc = "main_except"
  /\ out' = Append(out, "Error during export")
  /\ exit_code' = Bind(0)
  /\ pc' = "exit"
  /\ UNCHANGED <<variant, year, gets, status, competitions, competition_id, matches,
                 processed, df, file, log, exc, failed, result>>

\* ----------------------------------------------------------- src/script.py
\* an exception nothing catches: the interpreter prints the traceback and the
\* process ends with status 1
Uncaught(e) ==
  /\ exc' = e
  /\ failed' = TRUE
  /\ out' = Append(out, "Traceback")
  /\ exit_code' = Bind(1)
  /\ pc' = "exit"

\* dict.get("response", [])
GetResponse(body) == IF HasKey(body, "response") THEN body.response ELSE <<>>

\* obter_jogos_brasileirao: the GET, the status test and its early return,
\* response.json().get("response", [])
ObterJogosRequest ==
  /\ pc = "obter_jogos_brasileirao"
  /\ \E resp \in FixturesResponses :
       /\ gets' = Append(gets, FixturesUrl(year))
       /\ status' = Bind(resp.status)
       /\ IF resp.status # 200
          THEN /\ out' = Append(out, "Erro ao acessar API-Football")
               /\ failed' = TRUE
               /\ exit_code' = Bind(0)
               /\ pc' = "exit"
               /\ UNCHANGED <<matches, exc>>
          ELSE IF resp.body = Unbound
          THEN Uncaught(Bind(Exc("JSONDecodeError", "body"))) /\ UNCHANGED matches
          ELSE /\ matches' = Bind(GetResponse(Val(resp.body)))
               /\ pc' = "for_jogo"
               /\ UNCHANGED <<out, exc, failed, exit_code>>
  /\ UNCHANGED <<variant, year, competitions, competition_id, processed, df, file,
                 log, result>>

\* obter_jogos_brasileirao: one iteration of the for loop
ObterJogosStep ==
  /\ pc = "for_jogo"
  /\ Len(processed) < Len(Val(matches))
  /\ LET r == ProcessJogo(Val(matches)[Len(processed) + 1])
     IN IF r.raised
        THEN Uncaught(r.exc) /\ UNCHANGED processed
        ELSE /\ processed' = Append(processed, Val(r.value))
             /\ UNCHANGED <<pc, out, exc, failed, exit_code>>
  /\ UNCHANGED <<variant, year, gets, status, competitions, competition_id, matches,
                 df, file, log, result>>

\* obter_jogos_brasileirao: the loop is over; DataFrame, to_csv, the success
\* line, and the module ends
ObterJogosWrite ==
  /\ pc = "for_jogo"
  /\ Len(processed) = Len(Val(matches))
  /\ df' = Bind(DataFrame(processed, ScriptColumns))
  /\ file' = Bind(CsvFile(ScriptPath(year), DataFrame(processed, ScriptColumns), "utf-8-sig"))
  /\ out' = Append(out, "Arquivo criado com sucesso")
  /\ exit_code' = Bind(0)
  /\ pc' = "exit"
  /\ UNCHANGED <<variant, year, gets, status, competitions, competition_id, matches,
                 processed, log, exc, failed, result>>

\* ------------------------------------------------------- the specification
Next ==
  \/ ExportSeasonEnter
  \/ CompetitionsRequest
  \/ ScanCompetitions
  \/ GetMatches
  \/ ProcessMatchesStep
  \/ ProcessMatchesReturn
  \/ ToCsv
  \/ LogExportSummary
  \/ ExportSeasonExcept
  \/ MainSuccess
  \/ MainExcept
  \/ ObterJogosRequest
  \/ ObterJogosStep
  \/ ObterJogosWrite

Spec == Init /\ [][Next]_vars

\* =========================================================================
\* Properties
\* =========================================================================
Terminated == pc = "exit"
LastGet == gets[Len(gets)]
FetchAnswered ==
  /\ status # Unbound
  /\ gets # <<>>
  /\ LastGet.endpoint \in {"matches", "fixtures"}

\* a status of the success class (2xx)
IsSuccess(code) == 200 <= code /\ code < 300

\* the fixed column names of each variant's CSV
FixedColumns ==
  IF variant = "cbf"
  THEN <<"data", "rodada", "time_casa", "time_visitante", "gols_casa", "gols_visitante",
         "estadio", "cidade", "estado", "arbitro", "publico", "renda">>
  ELSE <<"Data", "Time Casa", "Time Visitante", "Placar Casa", "Placar Visitante",
         "Estadio">>

\* C1: a run that ended in failure has produced no CSV file: "the run failed"
\* and "the CSV file of this run exists" never hold together.
C1_NoFileOnFailure == ~(failed /\ file # Unbound)

\* C2: with zero matches fetched, the file that is written holds the header
\* row with the fixed column names and no data rows.
C2_EmptyExportHasHeader ==
  (file # Unbound /\ matches = Bind(<<>>)) =>
     (Val(file).header = FixedColumns /\ Val(file).rows = <<>>)

\* C3: a matches/fixtures response whose status is not a success status yields
\* no match list and no CSV file.
C3_NonSuccessStatusFails ==
  (FetchAnswered /\ ~IsSuccess(Val(status))) => (matches = Unbound /\ file = Unbound)

\* C7: a run that failed has an error message printed or logged and ends with
\* a non-zero exit status.
C7_FailureSignalled ==
  (Terminated /\ failed) =>
     /\ Val(exit_code) # 0
     /\ \/ \E i \in 1..Len(log) : log[i].level = "ERROR"
        \/ out # <<>>

\* C9: in export_season an empty match list is not an error: nothing is
\* raised, and the run ends returning the path of the written file.
C9_EmptyListReturnsPath ==
  (variant = "cbf" /\ matches = Bind(<<>>)) =>
     /\ exc = Unbound
     /\ Terminated => (~failed /\ file # Unbound /\ result = Bind(Val(file).path))

\* ---- what the resolver is asked to find, stated apart from its loop
ContainsKeyword(name) ==
  \E k \in 0..(Len(name) - Len(Keyword)) :
    \A j \in 1..Len(Keyword) : LowerChar(name[k + j]) = Keyword[j]

YearText(yr) == IF yr = 2022 THEN Season2022 ELSE Season2023

Qualifies(c, yr) ==
  /\ {"name", "series", "season", "id"} \subseteq DOMAIN c
  /\ ContainsKeyword(c.name)
  /\ c.series = "A"
  /\ c.season = YearText(yr)

NoneQualifies(L, yr) == \A i \in 1..Len(L) : ~Qualifies(L[i], yr)

\* C4: the identifier get_competition_id returns is the id of the first
\* competition of the listing whose name contains 'brasileiro' (any case),
\* whose series is "A" and whose season is the text of the requested year.
C4_ResolverReturnsFirstQualifying ==
  (competitions # Unbound /\ competition_id # Unbound) =>
     LET L == Val(competitions)
     IN \E i \in 1..Len(L) :
          /\ Qualifies(L[i], year)
          /\ L[i].id = Val(competition_id)
          /\ \A j \in 1..(i - 1) : ~Qualifies(L[j], year)

\* C4 witness: the listing holds two competitions that differ only in season
\* (and id), the second is the one of the requested year, and it was returned.
C4_Witness ==
  /\ pc = "get_matches"
  /\ competitions # Unbound
  /\ LET L == Val(competitions)
     IN /\ Len(L) = 2
        /\ L[1] \in WellFormedComps
        /\ L[2] \in WellFormedComps
        /\ L[1].name = L[2].name
        /\ L[1].series = L[2].series
        /\ L[1].season # L[2].season
        /\ L[1].id # L[2].id
        /\ Qualifies(L[2], year)
        /\ competition_id = Bind(L[2].id)

\* C5: when no competition of the listing qualifies, get_competition_id raises
\* (ValueError when the listing's objects are well formed), no identifier is
\* bound, no matches GET is issued and no match list exists; and no matches
\* GET is ever issued with an unbound identifier.
C5_NotFoundStopsBeforeFetch ==
  /\ (competitions # Unbound /\ pc # "scan" /\ NoneQualifies(Val(competitions), year)) =>
       /\ exc # Unbound
       /\ (\A i \in 1..Len(Val(competitions)) : Val(competitions)[i] \in WellFormedComps)
            => Val(exc).type = "ValueError"
       /\ competition_id = Unbound
       /\ matches = Unbound
       /\ \A i \in 1..Len(gets) : gets[i].endpoint # "matches"
  /\ \A i \in 1..Len(gets) : gets[i].endpoint = "matches" => gets[i].id # Unbound

\* C5 witness: a run over a two-entry listing without a qualifying competition
\* has ended with the ValueError.
C5_Witness ==
  /\ Terminated
  /\ competitions # Unbound
  /\ Len(Val(competitions)) = 2
  /\ NoneQualifies(Val(competitions), year)
  /\ exc = Bind(Exc("ValueError", "Competition not found"))
  /\ failed

\* ---- what a flat record must hold, stated field by field
ExpectedCbf(m) ==
  [data |-> m.date, rodada |-> m.round,
   time_casa |-> m.home_team.name, time_visitante |-> m.away_team.name,
   gols_casa |-> m.home_score, gols_visitante |-> m.away_score,
   estadio |-> m.stadium.name, cidade |-> m.stadium.city, estado |-> m.stadium.state,
   arbitro |-> m.referee.name, publico |-> m.attendance, renda |-> m.revenue]

First10(d) == [k \in 1..(IF Len(d) < 10 THEN Len(d) ELSE 10) |-> d[k]]

ExpectedScript(j) ==
  ("Data" :> First10(j.fixture.date)) @@ ("Time Casa" :> j.teams.home.name)
  @@ ("Time Visitante" :> j.teams.away.name) @@ ("Placar Casa" :> j.goals.home)
  @@ ("Placar Visitante" :> j.goals.away) @@ ("Estadio" :> j.fixture.venue.name)

WellFormedRecord(m) ==
  IF variant = "cbf" THEN m \in WellFormedCbfMatches ELSE m \in WellFormedFixtures

Expected(m) == IF variant = "cbf" THEN ExpectedCbf(m) ELSE ExpectedScript(m)

AllWellFormed == \A i \in 1..Len(Val(matches)) : WellFormedRecord(Val(matches)[i])

Mapping == pc \in {"process_matches", "for_jogo"}

\* C6: the flat records built so far are, in order, the records of the fetched
\* list, each with every fixed field holding the value of its source key
\* (Data: the first 10 characters of fixture.date); and over a list of N
\* well-formed records the mapper ends with exactly N flat records.
C6_MapperIsFieldwise ==
  matches # Unbound =>
    /\ Len(processed) <= Len(Val(matches))
    /\ \A i \in 1..Len(processed) :
         /\ WellFormedRecord(Val(matches)[i])
         /\ DOMAIN processed[i] = {FixedColumns[c] : c \in 1..Len(FixedColumns)}
         /\ processed[i] = Expected(Val(matches)[i])
    /\ (AllWellFormed /\ ~Mapping) =>
         /\ df # Unbound
         /\ Len(Val(df).rows) = Len(Val(matches))
         /\ Val(df).rows = processed

\* C6 witness: the script.py mapper has finished a two-record list whose
\* second date is shorter than 10 characters.
C6_Witness ==
  /\ variant = "script"
  /\ Terminated
  /\ matches = Bind(<<Fx1, Fx3>>)
  /\ Len(processed) = 2
  /\ processed[1]["Data"] = Date0415
  /\ processed[2]["Data"] = ShortDate

\* C8: whenever the CSV file of a run exists it has exactly one row per fetched
\* match record, every row holds a cell for each fixed column, and no fetched
\* record lacks a key; a run that fetched such a record ends failed and
\* without a file.
C8_NoPartialExport ==
  /\ file # Unbound =>
       /\ matches # Unbound
       /\ AllWellFormed
       /\ Len(Val(file).rows) = Len(Val(matches))
       /\ \A i \in 1..Len(Val(file).rows) :
            /\ Len(Val(file).rows[i]) = Len(FixedColumns)
            /\ \A c \in 1..Len(FixedColumns) :
                 Val(file).rows[i][c] = Expected(Val(matches)[i])[FixedColumns[c]]
  /\ (matches # Unbound /\ ~AllWellFormed) =>
       /\ file = Unbound
       /\ Terminated => failed

\* C8 witness: a run whose second record lacks a key has ended: one record was
\* mapped, the run failed, no file exists.
C8_Witness ==
  /\ Terminated
  /\ matches # Unbound
  /\ Len(Val(matches)) = 2
  /\ WellFormedRecord(Val(matches)[1])
  /\ ~WellFormedRecord(Val(matches)[2])
  /\ Len(processed) = 1
  /\ failed
  /\ file = Unbound

\* ---- the pipeline's steps, in order
Stage(p) ==
  CASE p = "export_season" -> 0
    [] p \in {"get_competition_id", "scan"} -> 1
    [] p \in {"get_matches", "obter_jogos_brasileirao"} -> 2
    [] p \in {"process_matches", "for_jogo"} -> 3
    [] p = "to_csv" -> 4
    [] p = "_log_export_summary" -> 5
    [] p = "returned" -> 6
    [] p \in {"except", "main_except", "exit"} -> 7

IsPrefix(a, b) == Len(a) <= Len(b) /\ SubSeq(b, 1, Len(a)) = a

PipelineOrder ==
  /\ IF variant = "cbf"
     THEN /\ Len(gets) <= 2
          /\ Len(gets) >= 1 => gets[1] = CompetitionsUrl
          /\ Len(gets) = 2 => (competition_id # Unbound /\ gets[2] = MatchesUrl(competition_id))
     ELSE /\ Len(gets) <= 1
          /\ Len(gets) = 1 => gets[1].endpoint = "fixtures"
  /\ matches # Unbound => (gets # <<>> /\ LastGet.endpoint \in {"matches", "fixtures"})
  /\ (processed # <<>> \/ df # Unbound) => matches # Unbound
  /\ file # Unbound =>
       /\ df # Unbound
       /\ Len(processed) = Len(Val(matches))
       /\ Val(df).rows = processed

PipelineStep ==
  /\ Stage(pc') >= Stage(pc)
  /\ IsPrefix(gets, gets')
  /\ Len(gets') <= Len(gets) + 1
  /\ IsPrefix(processed, processed')
  /\ matches # Unbound => matches' = matches
  /\ df # Unbound => df' = df
  /\ file # Unbound => file' = file
  /\ (exc # Unbound \/ failed) =>
       UNCHANGED <<gets, competition_id, matches, processed, df, file>>

\* C10: a run goes Resolver -> Fetcher -> Mapper -> Writer without going back:
\* the requests issued are a prefix of <<competitions GET, matches GET>> (of
\* the one fixtures GET in script.py), one GET per step; records are mapped
\* only once the fetch returned; the file is written only once every record
\* is mapped; and after a step failed no later step changes anything.
C10_PipelineRunsInOrder == [](PipelineOrder) /\ [][PipelineStep]_vars

\* C10 witness: a run of export_season went through all four steps with two
\* records and ended.
C10_Witness ==
  /\ variant = "cbf"
  /\ Terminated
  /\ ~failed
  /\ Len(gets) = 2
  /\ Len(processed) = 2
  /\ file # Unbound
  /\ Len(Val(file).rows) = 2
====
